---- MODULE Spec2Model ----
(***************************************************************************)
(* RIS <-> CSV converter (ris2csv.py).                                     *)
(*                                                                         *)
(* Text is modelled as sequences of one-character strings, so that         *)
(* strip(), startswith(), the tag regex, ";".join and split(";") are       *)
(* computed the way the Python code computes them.  A tag is the sequence  *)
(* of its characters: TY is <<"T","Y">>.  A RIS file is a sequence of      *)
(* lines; a CSV file is a sequence of rows, the first being the header,    *)
(* and a row is a sequence of cells (csv.writer / csv.reader carry cells   *)
(* that hold no line break unchanged, and no cell here holds one).         *)
(*                                                                         *)
(* Each function of the program is a pure operator built from the          *)
(* operators of its loop body; the step-wise specifications run the same   *)
(* loop bodies one iteration per action, and main runs the functions       *)
(* whole.                                                                  *)
(***************************************************************************)
EXTENDS Integers, Sequences, FiniteSets, TLC

VARIABLES
    phase,          \* position of the running conversion
    standards,      \* dict tag -> [description, notes] of load_ris_standards
    lines,          \* parse_ris_file: the lines read from the RIS file
    pos,            \* parse_ris_file: index of the next line of the loop
    current_ref,    \* parse_ris_file: the in-progress record
    references,     \* parse_ris_file: the records appended so far
    csv_file,       \* a CSV file: <<>> when empty, else header row then data rows
    row_i,          \* index of the next data row / record of the running loop
    field_i,        \* convert_csv_to_ris: index of the next field of the row
    ris_out,        \* convert_csv_to_ris: the lines written to output_ris
    ris_written,    \* convert_csv_to_ris: output_ris was opened for writing
    orig_refs,      \* the records a round trip started from
    csv_files,      \* merge_csv_files: the CSV files of the folder, in glob order
    file_i,         \* merge_csv_files: index of the next file of the loop
    unique_rows,    \* merge_csv_files: the set of row tuples
    merged_out,     \* merge_csv_files: the rows written to merged_output_csv
    merged_written, \* merge_csv_files: merged_output_csv was opened for writing
    schema_src,     \* main: the rows of the standards file
    ris_files,      \* main: the RIS files of the folder, in glob order
    ris_i,          \* main: index of the next RIS file of the loop
    fs,             \* main: the files on disk that main's steps write
    run_log         \* main: the calls made so far, in order

parseVars == <<lines, pos, current_ref, references>>

serVars == <<row_i, field_i, ris_out, ris_written>>

mergeVars == <<csv_files, file_i, unique_rows, merged_out, merged_written>>

mainVars == <<schema_src, ris_files, ris_i, fs, run_log>>

vars == <<phase, standards, lines, pos, current_ref, references, csv_file, row_i,
          field_i, ris_out, ris_written, orig_refs, csv_files, file_i, unique_rows,
          merged_out, merged_written, schema_src, ris_files, ris_i, fs, run_log>>

(***************************************************************************)
(* Bounds of the model.                                                    *)
(***************************************************************************)
MaxLines == 4

MaxRows == 2

MaxSources == 3

MaxRecords == 2

MaxRisFiles == 2

(***************************************************************************)
(* Characters and strings.                                                 *)
(***************************************************************************)
UpperChars == {"A", "B", "C", "D", "E", "F", "G", "H", "I", "J", "K", "L", "M",
               "N", "O", "P", "Q", "R", "S", "T", "U", "V", "W", "X", "Y", "Z"}

DigitChars == {"0", "1", "2", "3", "4", "5", "6", "7", "8", "9"}

\* [A-Z0-9] of the tag regex
TagChars == UpperChars \cup DigitChars

\* \s of the regex and the characters str.strip() removes
SpaceChars == {" "}

TY == <<"T", "Y">>

ER == <<"E", "R">>

AU == <<"A", "U">>

TI == <<"T", "I">>

\* code points of the characters the model's texts use, for sorted()
CharOrd(c) ==
    CASE c = " " -> 32
      [] c = "-" -> 45
      [] c = ";" -> 59
      [] c = "A" -> 65
      [] c = "E" -> 69
      [] c = "I" -> 73
      [] c = "1" -> 49
      [] c = "J" -> 74
      [] c = "N" -> 78
      [] c = "R" -> 82
      [] c = "T" -> 84
      [] c = "U" -> 85
      [] c = "Y" -> 89
      [] c = "a" -> 97
      [] c = "b" -> 98
      [] c = "c" -> 99
      [] c = "e" -> 101
      [] c = "h" -> 104
      [] c = "i" -> 105
      [] c = "l" -> 108
      [] c = "n" -> 110
      [] c = "x" -> 120
      [] c = "y" -> 121

RECURSIVE LStrip(_)
LStrip(s) ==
    IF s # <<>> /\ Head(s) \in SpaceChars THEN LStrip(Tail(s)) ELSE s

RECURSIVE RStrip(_)
RStrip(s) ==
    IF s # <<>> /\ s[Len(s)] \in SpaceChars
    THEN RStrip(SubSeq(s, 1, Len(s) - 1))
    ELSE s

\* str.strip()
Strip(s) == RStrip(LStrip(s))

\* str.startswith(p)
StartsWith(s, p) == Len(s) >= Len(p) /\ SubSeq(s, 1, Len(p)) = p

(***************************************************************************)
(* parse_ris_file.                                                         *)
(***************************************************************************)
\* the empty dict {}
EmptyRef == [t \in {} |-> 0]

\* a scalar entry of a record: current_ref[tag] = value
Scalar(value) == [multi |-> FALSE, vals |-> <<value>>]

\* re.match(r'^([A-Z0-9]{2})\s*-\s*(.*)$', line) followed by value.strip()
ReMatch(line) ==
    IF Len(line) >= 3 /\ line[1] \in TagChars /\ line[2] \in TagChars
    THEN LET rest == LStrip(SubSeq(line, 3, Len(line)))
         IN  IF rest # <<>> /\ Head(rest) = "-"
             THEN [ok |-> TRUE, tag |-> SubSeq(line, 1, 2), value |-> Strip(Tail(rest))]
             ELSE [ok |-> FALSE, tag |-> <<>>, value |-> <<>>]
    ELSE [ok |-> FALSE, tag |-> <<>>, value |-> <<>>]

\* lines 60-66: store value under tag, promoting to a list on the second occurrence
StoreEntry(ref, tag, value) ==
    [t \in DOMAIN ref \cup {tag} |->
        IF t # tag THEN ref[t]
        ELSE IF tag \in DOMAIN ref
             THEN [multi |-> TRUE, vals |-> Append(ref[tag].vals, value)]
             ELSE Scalar(value)]

\* line 50 and line 68: `current_ref and 'TY' in current_ref`
Emittable(ref) == ref # EmptyRef /\ TY \in DOMAIN ref

\* line 59: `value or tag == 'TY'`
Stored(m) == m.ok /\ (m.value # <<>> \/ m.tag = TY)

\* one iteration of the loop of lines 44-66 on a raw line
ParseLine(st, raw) ==
    LET line == Strip(raw)
    IN  IF line = <<>> THEN st
        ELSE IF StartsWith(line, ER)
        THEN IF Emittable(st.cur)
             THEN [cur |-> EmptyRef, refs |-> Append(st.refs, st.cur)]
             ELSE st
        ELSE LET m == ReMatch(line)
             IN  IF Stored(m)
                 THEN [cur |-> StoreEntry(st.cur, m.tag, m.value), refs |-> st.refs]
                 ELSE st

\* lines 68-71: the trailing record
ParseEnd(st) ==
    IF Emittable(st.cur) THEN Append(st.refs, st.cur) ELSE st.refs

RECURSIVE ParseLoop(_, _)
ParseLoop(st, ls) ==
    IF ls = <<>> THEN st ELSE ParseLoop(ParseLine(st, Head(ls)), Tail(ls))

\* parse_ris_file as a function of the file's lines
parse_ris_file(ls) == ParseEnd(ParseLoop([cur |-> EmptyRef, refs |-> <<>>], ls))

\* lines of RIS files given to the parser
RisLines ==
    { <<"T", "Y", " ", " ", "-", " ", "J">>,
      <<"T", "Y", " ", " ", "-", " ">>,
      <<"A", "U", " ", " ", "-", " ", "x">>,
      <<" ", "A", "U", "-", "y", " ">>,
      <<"A", "U", " ", " ", "-", " ">>,
      <<"E", "R", " ", " ", "-", " ">>,
      <<" ">>,
      <<"a", "U", " ", "-", " ", "x">> }

RECURSIVE SeqsUpTo(_, _)
SeqsUpTo(S, n) ==
    IF n = 0 THEN {<<>>}
    ELSE LET shorter == SeqsUpTo(S, n - 1)
         IN  shorter \cup {Append(s, x) : s \in {t \in shorter : Len(t) = n - 1}, x \in S}

(***************************************************************************)
(* sorted(): the order of Python strings, by code point.                   *)
(***************************************************************************)
RECURSIVE StrLess(_, _)
StrLess(a, b) ==
    IF b = <<>> THEN FALSE
    ELSE IF a = <<>> THEN TRUE
    ELSE IF Head(a) = Head(b) THEN StrLess(Tail(a), Tail(b))
    ELSE CharOrd(Head(a)) < CharOrd(Head(b))

\* the least string of a non-empty set
MinStr(S) == CHOOSE a \in S : \A b \in S \ {a} : StrLess(a, b)

\* sorted(d.keys()): the keys of a dict in ascending order
RECURSIVE SortedKeys(_)
SortedKeys(S) ==
    IF S = {} THEN <<>> ELSE <<MinStr(S)>> \o SortedKeys(S \ {MinStr(S)})

\* insert x into the sorted list s, after the elements not greater than it
RECURSIVE Insert(_, _)
Insert(s, x) ==
    IF s = <<>> THEN <<x>>
    ELSE IF StrLess(x, Head(s)) THEN <<x>> \o s
    ELSE <<Head(s)>> \o Insert(Tail(s), x)

\* sorted(list): the elements of a list, repeated ones kept, in ascending order
RECURSIVE Sorted(_)
Sorted(s) ==
    IF s = <<>> THEN <<>> ELSE Insert(Sorted(SubSeq(s, 1, Len(s) - 1)), s[Len(s)])

(***************************************************************************)
(* load_ris_standards.                                                     *)
(***************************************************************************)
\* lines 14-24: one row of the standards file
LoadRow(std, row) ==
    IF Len(row) < 2 THEN std
    ELSE LET tag == Strip(row[1])
         IN  IF tag = <<>> THEN std
             ELSE [t \in DOMAIN std \cup {tag} |->
                     IF t = tag
                     THEN [description |-> row[2],
                           notes |-> IF Len(row) > 3 THEN row[4] ELSE <<>>]
                     ELSE std[t]]

RECURSIVE LoadRows(_, _)
LoadRows(std, rows) ==
    IF rows = <<>> THEN std ELSE LoadRows(LoadRow(std, Head(rows)), Tail(rows))

\* lines 26-31: the dict is returned when it has TY, and ValueError is raised otherwise
load_ris_standards(src) ==
    LET std == LoadRows(EmptyRef, src)
    IN  [ok |-> TY \in DOMAIN std, standards |-> std]

\* sorted(standards.keys())
Fields(std) == SortedKeys(DOMAIN std)

\* str.lower(), on the letters the notes of the model use
LowerChar(c) ==
    CASE c = "A" -> "a"
      [] c = "C" -> "c"
      [] c = "E" -> "e"
      [] c = "H" -> "h"
      [] c = "I" -> "i"
      [] c = "L" -> "l"
      [] c = "N" -> "n"
      [] OTHER -> c

Lower(s) == [i \in 1..Len(s) |-> LowerChar(s[i])]

\* `sub in s`
Contains(s, sub) ==
    \E i \in 1..(Len(s) - Len(sub) + 1) : SubSeq(s, i, i + Len(sub) - 1) = sub

\* lines 155-156
multi_value_fields(std) ==
    {tag \in DOMAIN std :
        /\ Contains(Lower(std[tag].notes), <<"e", "a", "c", "h">>)
        /\ Contains(Lower(std[tag].notes), <<"l", "i", "n", "e">>)}

\* notes of the standards file
NoteEachLine == <<"E", "a", "c", "h", " ", "l", "i", "n", "e">>

NoteEachUpper == <<"E", "A", "C", "H", "L", "I", "N", "E">>

NoteLineOnly == <<"l", "i", "n", "e">>

\* rows of standards files: tag, description, unused, notes
StdRow(tag, notes) == <<tag, <<"x">>, <<>>, notes>>

\* the standards files of the model; the last one has no TY row
SchemaSources ==
    { <<StdRow(AU, NoteEachLine), <<TY, <<"x">>>>>>,
      << <<ER>>, StdRow(<<>>, NoteEachLine), StdRow(ER, <<>>),
         StdRow(<<" ", "T", "Y", " ">>, <<>>), StdRow(AU, NoteLineOnly)>>,
      <<StdRow(TY, <<>>), StdRow(TI, <<>>), <<AU, <<"x">>, <<>>, NoteEachUpper, <<"x">>>>>>,
      <<StdRow(AU, NoteEachLine), StdRow(TI, <<>>)>> }

\* the dicts load_ris_standards returns for them
LoadedStandards ==
    {load_ris_standards(src).standards :
        src \in {s \in SchemaSources : load_ris_standards(s).ok}}

(***************************************************************************)
(* convert_ris_to_csv: the projection of records onto the sorted tags.     *)
(***************************************************************************)
\* ';'.join(values)
RECURSIVE JoinSemi(_)
JoinSemi(vals) ==
    IF vals = <<>> THEN <<>>
    ELSE IF Len(vals) = 1 THEN vals[1]
    ELSE vals[1] \o <<";">> \o JoinSemi(Tail(vals))

\* lines 89-92 with a list written as its first value only
ProjectCell_FirstOnly(ref, field) ==
    IF field \in DOMAIN ref THEN ref[field].vals[1] ELSE <<>>

\* lines 89-92: the cell of a record for one field
ProjectCell(ref, field) ==
    IF field \in DOMAIN ref
    THEN IF ref[field].multi THEN JoinSemi(ref[field].vals) ELSE ref[field].vals[1]
    ELSE <<>>

\* lines 87-93: the row of a record
ProjectRow(fields, ref) == [i \in 1..Len(fields) |-> ProjectCell(ref, fields[i])]

\* lines 82-93: the CSV file written for a list of records
ProjectFile(std, refs) ==
    <<Fields(std)>> \o [i \in 1..Len(refs) |-> ProjectRow(Fields(std), refs[i])]

(***************************************************************************)
(* convert_csv_to_ris.                                                     *)
(***************************************************************************)
\* str.split(';')
RECURSIVE SplitSemi(_)
SplitSemi(s) ==
    IF \E i \in 1..Len(s) : s[i] = ";"
    THEN LET k == CHOOSE i \in 1..Len(s) : s[i] = ";" /\ \A j \in 1..(i - 1) : s[j] # ";"
         IN  <<SubSeq(s, 1, k - 1)>> \o SplitSemi(SubSeq(s, k + 1, Len(s)))
    ELSE <<s>>

\* csv.DictReader: row[field], None (falsy, here the empty string) for a short row
RowGet(header, row, field) ==
    LET at == {i \in 1..Len(header) : header[i] = field}
    IN  IF at = {} THEN <<>>
        ELSE LET i == CHOOSE j \in at : \A k \in at : k <= j
             IN  IF i <= Len(row) THEN row[i] ELSE <<>>

\* f"{field}  - {value}\n"
FormatLine(field, value) == field \o <<" ", " ", "-", " ">> \o value

\* the header check with the sort of line 160 left out
HeaderAccepted_Ordered(header, fields) == header = fields

\* line 160: the header is accepted
HeaderAccepted(header, fields) == Sorted(header) = fields

\* line 166: the row is skipped
RowSkipped(header, row) == RowGet(header, row, TY) = <<>>

\* the skip of line 175 with 'ER' left out of the tuple
FieldSkipped_KeepsER(field, cell) == field = TY \/ cell = <<>>

\* line 175: the field is skipped
FieldSkipped(field, cell) == field \in {TY, ER} \/ cell = <<>>

\* lines 179-182: the lines of a multi-value field
RECURSIVE PieceLines(_, _)
PieceLines(field, pieces) ==
    IF pieces = <<>> THEN <<>>
    ELSE (IF Strip(Head(pieces)) # <<>>
          THEN <<FormatLine(field, Strip(Head(pieces)))>>
          ELSE <<>>) \o PieceLines(field, Tail(pieces))

\* lines 175-184 with every field split on ";", multi-value or not
FieldLines_SplitsAll(multi, field, cell) ==
    IF FieldSkipped(field, cell) THEN <<>> ELSE PieceLines(field, SplitSemi(cell))

\* lines 175-184: the lines written for one field of a row
FieldLines(multi, field, cell) ==
    IF FieldSkipped(field, cell) THEN <<>>
    ELSE IF field \in multi THEN PieceLines(field, SplitSemi(cell))
    ELSE <<FormatLine(field, cell)>>

\* line 171
TypeLine(header, row) == FormatLine(TY, RowGet(header, row, TY))

\* line 187: "ER  - \n\n", the end marker and a blank line
EndLines == <<FormatLine(ER, <<>>), <<>>>>

RECURSIVE FieldsLines(_, _, _, _)
FieldsLines(multi, header, row, fields) ==
    IF fields = <<>> THEN <<>>
    ELSE FieldLines(multi, Head(fields), RowGet(header, row, Head(fields)))
         \o FieldsLines(multi, header, row, Tail(fields))

\* lines 165-187: the lines written for one row
RowLines(std, header, row) ==
    IF RowSkipped(header, row) THEN <<>>
    ELSE <<TypeLine(header, row)>>
         \o FieldsLines(multi_value_fields(std), header, row, Fields(std))
         \o EndLines

RECURSIVE RowsLines(_, _, _)
RowsLines(std, header, rows) ==
    IF rows = <<>> THEN <<>>
    ELSE RowLines(std, header, Head(rows)) \o RowsLines(std, header, Tail(rows))

\* lines 152-189 as a function of the CSV file: whether output_ris is
\* written, and its lines.  An empty file has fieldnames None, sorted(None)
\* raises, and the except clause of line 191 returns.
CsvToRis(std, file) ==
    IF file = <<>> THEN [written |-> FALSE, out |-> <<>>]
    ELSE IF ~HeaderAccepted(Head(file), Fields(std)) THEN [written |-> FALSE, out |-> <<>>]
    ELSE [written |-> TRUE, out |-> RowsLines(std, Head(file), Tail(file))]

(***************************************************************************)
(* merge_csv_files.  A CSV file of the folder is a record: is_output tells *)
(* that its path is merged_output_csv, rows are its rows, header first.    *)
(***************************************************************************)
\* the rows of a sequence, as the set of tuples of lines 133-135
RowSet(rows) == {rows[i] : i \in 1..Len(rows)}

\* lines 125-135 with the set rebuilt from each file instead of added to
MergeFile_Replaces(unique, fields, file) ==
    IF file.is_output THEN unique
    ELSE IF Sorted(Head(file.rows)) # fields THEN unique
    ELSE RowSet(Tail(file.rows))

\* lines 125-135: one file of the loop that has a header row
MergeFile(unique, fields, file) ==
    IF file.is_output THEN unique
    ELSE IF Sorted(Head(file.rows)) # fields THEN unique
    ELSE unique \cup RowSet(Tail(file.rows))

\* line 129: next(reader) raises StopIteration on a file without rows
MergeRaises(file) == ~file.is_output /\ file.rows = <<>>

RECURSIVE MergeLoop(_, _, _)
MergeLoop(unique, fields, files) ==
    IF files = <<>> THEN [ok |-> TRUE, unique |-> unique]
    ELSE IF MergeRaises(Head(files)) THEN [ok |-> FALSE, unique |-> unique]
    ELSE MergeLoop(MergeFile(unique, fields, Head(files)), fields, Tail(files))

\* lines 114-143 as a function of the folder: whether merged_output_csv is
\* written, and the set of rows written after the header
MergeFolder(std, files) ==
    IF files = <<>> THEN [written |-> FALSE, unique |-> {}]
    ELSE LET r == MergeLoop({}, Fields(std), files)
         IN  [written |-> r.ok, unique |-> IF r.ok THEN r.unique ELSE {}]

(***************************************************************************)
(* The three conversions as main calls them: each loads the standards      *)
(* file itself and catches every exception (lines 75/107, 112/145,         *)
(* 150/191).  `raised` tells whether an exception leaves the function.     *)
(***************************************************************************)
\* convert_ris_to_csv without the except clause of lines 107-108
convert_ris_to_csv_NoExcept(src, file) ==
    LET ld == load_ris_standards(src)
    IN  IF ~ld.ok
        THEN [raised |-> TRUE, parsed |-> FALSE, wrote |-> FALSE, rows |-> <<>>]
        ELSE IF file.fault # "none"
        THEN [raised |-> TRUE, parsed |-> TRUE, wrote |-> FALSE, rows |-> <<>>]
        ELSE [raised |-> FALSE, parsed |-> TRUE, wrote |-> TRUE,
              rows |-> ProjectFile(ld.standards, parse_ris_file(file.lines))]

\* lines 73-108.  file.fault is "read" when the RIS file cannot be read (line
\* 41 raises), "write" when output_csv cannot be opened (line 82 raises)
convert_ris_to_csv(src, file) ==
    LET ld == load_ris_standards(src)
    IN  IF ~ld.ok
        THEN [raised |-> FALSE, parsed |-> FALSE, wrote |-> FALSE, rows |-> <<>>]
        ELSE IF file.fault # "none"
        THEN [raised |-> FALSE, parsed |-> TRUE, wrote |-> FALSE, rows |-> <<>>]
        ELSE [raised |-> FALSE, parsed |-> TRUE, wrote |-> TRUE,
              rows |-> ProjectFile(ld.standards, parse_ris_file(file.lines))]

\* lines 110-146
merge_csv_files(src, files) ==
    LET ld == load_ris_standards(src)
    IN  IF ~ld.ok THEN [raised |-> FALSE, written |-> FALSE, unique |-> {}]
        ELSE [raised |-> FALSE,
              written |-> MergeFolder(ld.standards, files).written,
              unique |-> MergeFolder(ld.standards, files).unique]

\* lines 148-192
convert_csv_to_ris(src, file) ==
    LET ld == load_ris_standards(src)
    IN  IF ~ld.ok THEN [raised |-> FALSE, written |-> FALSE, out |-> <<>>]
        ELSE [raised |-> FALSE,
              written |-> CsvToRis(ld.standards, file).written,
              out |-> CsvToRis(ld.standards, file).out]

(***************************************************************************)
(* Initial values of the variables a specification does not use.           *)
(***************************************************************************)
IdleParse == lines = <<>> /\ pos = 1 /\ current_ref = EmptyRef /\ references = <<>>

IdleSer == row_i = 1 /\ field_i = 1 /\ ris_out = <<>> /\ ris_written = FALSE

IdleMerge ==
    /\ csv_files = <<>>
    /\ file_i = 1
    /\ unique_rows = {}
    /\ merged_out = <<>>
    /\ merged_written = FALSE

IdleMain ==
    /\ schema_src = [exists |-> FALSE, rows |-> <<>>]
    /\ ris_files = <<>>
    /\ ris_i = 1
    /\ fs = EmptyRef
    /\ run_log = <<>>

IsBlankLine(raw) == Strip(raw) = <<>>

IsEndMarker(raw) == ~IsBlankLine(raw) /\ StartsWith(Strip(raw), ER)

IsTagLine(raw) == ~IsBlankLine(raw) /\ ~IsEndMarker(raw) /\ Stored(ReMatch(Strip(raw)))

ParseState == [cur |-> current_ref, refs |-> references]

\* line 46-47: a blank line
ParseBlank ==
    /\ phase = "parse"
    /\ pos <= Len(lines)
    /\ IsBlankLine(lines[pos])
    /\ pos' = pos + 1
    /\ current_ref' = ParseLine(ParseState, lines[pos]).cur
    /\ references' = ParseLine(ParseState, lines[pos]).refs
    /\ UNCHANGED <<phase, standards, lines, csv_file, serVars, orig_refs, mergeVars, mainVars>>

\* lines 49-53: a line that starts with ER
ParseEndMarker ==
    /\ phase = "parse"
    /\ pos <= Len(lines)
    /\ IsEndMarker(lines[pos])
    /\ pos' = pos + 1
    /\ current_ref' = ParseLine(ParseState, lines[pos]).cur
    /\ references' = ParseLine(ParseState, lines[pos]).refs
    /\ UNCHANGED <<phase, standards, lines, csv_file, serVars, orig_refs, mergeVars, mainVars>>

\* lines 55-66: a line that matches the regex and is stored
ParseTagLine ==
    /\ phase = "parse"
    /\ pos <= Len(lines)
    /\ IsTagLine(lines[pos])
    /\ pos' = pos + 1
    /\ current_ref' = ParseLine(ParseState, lines[pos]).cur
    /\ references' = ParseLine(ParseState, lines[pos]).refs
    /\ UNCHANGED <<phase, standards, lines, csv_file, serVars, orig_refs, mergeVars, mainVars>>

\* lines 55-59: a line that does not match, or whose empty value is dropped
ParseIgnored ==
    /\ phase = "parse"
    /\ pos <= Len(lines)
    /\ ~IsBlankLine(lines[pos]) /\ ~IsEndMarker(lines[pos]) /\ ~IsTagLine(lines[pos])
    /\ pos' = pos + 1
    /\ current_ref' = ParseLine(ParseState, lines[pos]).cur
    /\ references' = ParseLine(ParseState, lines[pos]).refs
    /\ UNCHANGED <<phase, standards, lines, csv_file, serVars, orig_refs, mergeVars, mainVars>>

\* lines 68-71: end of input
ParseFinish ==
    /\ phase = "parse"
    /\ pos = Len(lines) + 1
    /\ references' = ParseEnd(ParseState)
    /\ phase' = "parsed"
    /\ UNCHANGED <<standards, lines, pos, current_ref, csv_file, serVars, orig_refs,
                   mergeVars, mainVars>>

ParseInit ==
    /\ phase = "parse"
    /\ standards = EmptyRef
    /\ lines \in SeqsUpTo(RisLines, MaxLines)
    /\ pos = 1
    /\ current_ref = EmptyRef
    /\ references = <<>>
    /\ IdleSer /\ IdleMerge /\ IdleMain
    /\ csv_file = <<>>
    /\ orig_refs = <<>>

ParseNext ==
    \/ ParseBlank
    \/ ParseEndMarker
    \/ ParseTagLine
    \/ ParseIgnored
    \/ ParseFinish

SpecParse == ParseInit /\ [][ParseNext]_vars

(***************************************************************************)
(* convert_csv_to_ris, one loop iteration per step.                        *)
(***************************************************************************)
CsvHeader == Head(csv_file)

CsvRows == Tail(csv_file)

CurRow == CsvRows[row_i]

CurField == Fields(standards)[field_i]

CurCell == RowGet(CsvHeader, CurRow, CurField)

\* lines 158-164: the header is accepted and output_ris is opened
SerOpen ==
    /\ phase = "ser_open"
    /\ csv_file # <<>>
    /\ HeaderAccepted(CsvHeader, Fields(standards))
    /\ ris_written' = CsvToRis(standards, csv_file).written
    /\ phase' = "ser_row"
    /\ UNCHANGED <<standards, parseVars, csv_file, row_i, field_i, ris_out, orig_refs,
                   mergeVars, mainVars>>

\* lines 160-162 and 191-192: header mismatch, or no header at all
SerReject ==
    /\ phase = "ser_open"
    /\ IF csv_file = <<>> THEN TRUE ELSE ~HeaderAccepted(CsvHeader, Fields(standards))
    /\ ris_written' = CsvToRis(standards, csv_file).written
    /\ phase' = "ser_failed"
    /\ UNCHANGED <<standards, parseVars, csv_file, row_i, field_i, ris_out, orig_refs,
                   mergeVars, mainVars>>

\* lines 166-168: a row without TY
SerSkipRow ==
    /\ phase = "ser_row"
    /\ row_i <= Len(CsvRows)
    /\ RowSkipped(CsvHeader, CurRow)
    /\ row_i' = row_i + 1
    /\ UNCHANGED <<phase, standards, parseVars, csv_file, field_i, ris_out, ris_written,
                   orig_refs, mergeVars, mainVars>>

\* line 171: the TY line of a row
SerTypeLine ==
    /\ phase = "ser_row"
    /\ row_i <= Len(CsvRows)
    /\ ~RowSkipped(CsvHeader, CurRow)
    /\ ris_out' = Append(ris_out, TypeLine(CsvHeader, CurRow))
    /\ field_i' = 1
    /\ phase' = "ser_field"
    /\ UNCHANGED <<standards, parseVars, csv_file, row_i, ris_written, orig_refs,
                   mergeVars, mainVars>>

\* lines 175-176: TY, ER and empty cells
SerSkipField ==
    /\ phase = "ser_field"
    /\ field_i <= Len(Fields(standards))
    /\ FieldSkipped(CurField, CurCell)
    /\ ris_out' = ris_out \o FieldLines(multi_value_fields(standards), CurField, CurCell)
    /\ field_i' = field_i + 1
    /\ UNCHANGED <<phase, standards, parseVars, csv_file, row_i, ris_written, orig_refs,
                   mergeVars, mainVars>>

\* lines 178-182: a multi-value field
SerMultiField ==
    /\ phase = "ser_field"
    /\ field_i <= Len(Fields(standards))
    /\ ~FieldSkipped(CurField, CurCell)
    /\ CurField \in multi_value_fields(standards)
    /\ ris_out' = ris_out \o FieldLines(multi_value_fields(standards), CurField, CurCell)
    /\ field_i' = field_i + 1
    /\ UNCHANGED <<phase, standards, parseVars, csv_file, row_i, ris_written, orig_refs,
                   mergeVars, mainVars>>

\* lines 183-184: any other field
SerPlainField ==
    /\ phase = "ser_field"
    /\ field_i <= Len(Fields(standards))
    /\ ~FieldSkipped(CurField, CurCell)
    /\ CurField \notin multi_value_fields(standards)
    /\ ris_out' = ris_out \o FieldLines(multi_value_fields(standards), CurField, CurCell)
    /\ field_i' = field_i + 1
    /\ UNCHANGED <<phase, standards, parseVars, csv_file, row_i, ris_written, orig_refs,
                   mergeVars, mainVars>>

\* line 187: the end of a row
SerEndRow ==
    /\ phase = "ser_field"
    /\ field_i = Len(Fields(standards)) + 1
    /\ ris_out' = ris_out \o EndLines
    /\ row_i' = row_i + 1
    /\ phase' = "ser_row"
    /\ UNCHANGED <<standards, parseVars, csv_file, field_i, ris_written, orig_refs,
                   mergeVars, mainVars>>

\* line 189: the end of the file
SerFinish ==
    /\ phase = "ser_row"
    /\ row_i = Len(CsvRows) + 1
    /\ phase' = "serialized"
    /\ UNCHANGED <<standards, parseVars, csv_file, serVars, orig_refs, mergeVars, mainVars>>

\* cells of CSV files, by column
CellsOf(tag) ==
    IF tag = TY THEN {<<>>, <<"J">>}
    ELSE IF tag = AU THEN {<<>>, <<"x">>, <<"x", ";", " ", ";", " ", "y">>, <<";">>}
    ELSE {<<>>, <<"x">>}

\* rows under a header: a cell for every column, or a short row
RowsUnder(header) ==
    {r \in [1..Len(header) -> UNION {CellsOf(t) : t \in {TY, AU, ER}}] :
        \A i \in 1..Len(header) : r[i] \in CellsOf(header[i])}
    \cup {<<<<"J">>>>}

Reverse(s) == [i \in 1..Len(s) |-> s[Len(s) + 1 - i]]

\* headers of CSV files given to convert_csv_to_ris
HeadersFor(fields) ==
    {fields, Reverse(fields), Tail(fields), <<TY, TY>>}

\* CSV files given to convert_csv_to_ris: the empty file, or a header and rows
CsvInputs(fields) ==
    {<<>>} \cup
    UNION {{<<h>> \o rows : rows \in SeqsUpTo(RowsUnder(h), MaxRows)} : h \in HeadersFor(fields)}

SerInit ==
    /\ phase = "ser_open"
    /\ standards \in LoadedStandards
    /\ csv_file \in CsvInputs(Fields(standards))
    /\ IdleParse /\ IdleSer /\ IdleMerge /\ IdleMain
    /\ orig_refs = <<>>

SerNext ==
    \/ SerOpen
    \/ SerReject
    \/ SerSkipRow
    \/ SerTypeLine
    \/ SerSkipField
    \/ SerMultiField
    \/ SerPlainField
    \/ SerEndRow
    \/ SerFinish

SpecSer == SerInit /\ [][SerNext]_vars

(***************************************************************************)
(* merge_csv_files, one loop iteration per step.                           *)
(***************************************************************************)
CurFile == csv_files[file_i]

\* lines 119-122: an empty folder
MergeNoFiles ==
    /\ phase = "merge_start"
    /\ csv_files = <<>>
    /\ phase' = "merge_none"
    /\ UNCHANGED <<standards, parseVars, csv_file, serVars, orig_refs, mergeVars, mainVars>>

\* lines 119-124: the loop is entered
MergeBegin ==
    /\ phase = "merge_start"
    /\ csv_files # <<>>
    /\ phase' = "merge_read"
    /\ UNCHANGED <<standards, parseVars, csv_file, serVars, orig_refs, mergeVars, mainVars>>

\* lines 125-126: the merged output itself
MergeSkipOutput ==
    /\ phase = "merge_read"
    /\ file_i <= Len(csv_files)
    /\ CurFile.is_output
    /\ unique_rows' = MergeFile(unique_rows, Fields(standards), CurFile)
    /\ file_i' = file_i + 1
    /\ UNCHANGED <<phase, standards, parseVars, csv_file, serVars, orig_refs, csv_files,
                   merged_out, merged_written, mainVars>>

\* lines 129 and 145-146: a file without a header row
MergeEmptyFile ==
    /\ phase = "merge_read"
    /\ file_i <= Len(csv_files)
    /\ MergeRaises(CurFile)
    /\ phase' = "merge_failed"
    /\ UNCHANGED <<standards, parseVars, csv_file, serVars, orig_refs, mergeVars, mainVars>>

\* lines 130-132: header mismatch
MergeMismatch ==
    /\ phase = "merge_read"
    /\ file_i <= Len(csv_files)
    /\ ~CurFile.is_output /\ ~MergeRaises(CurFile)
    /\ Sorted(Head(CurFile.rows)) # Fields(standards)
    /\ unique_rows' = MergeFile(unique_rows, Fields(standards), CurFile)
    /\ file_i' = file_i + 1
    /\ UNCHANGED <<phase, standards, parseVars, csv_file, serVars, orig_refs, csv_files,
                   merged_out, merged_written, mainVars>>

\* lines 133-135: the rows of an accepted file
MergeAddRows ==
    /\ phase = "merge_read"
    /\ file_i <= Len(csv_files)
    /\ ~CurFile.is_output /\ ~MergeRaises(CurFile)
    /\ Sorted(Head(CurFile.rows)) = Fields(standards)
    /\ unique_rows' = MergeFile(unique_rows, Fields(standards), CurFile)
    /\ file_i' = file_i + 1
    /\ UNCHANGED <<phase, standards, parseVars, csv_file, serVars, orig_refs, csv_files,
                   merged_out, merged_written, mainVars>>

\* lines 137-139: the output is opened and the header written
MergeOpenOutput ==
    /\ phase = "merge_read"
    /\ file_i = Len(csv_files) + 1
    /\ merged_written' = TRUE
    /\ phase' = "merge_write"
    /\ UNCHANGED <<standards, parseVars, csv_file, serVars, orig_refs, csv_files, file_i,
                   unique_rows, merged_out, mainVars>>

\* lines 140-141: the next row of the set, in the set's iteration order
MergeWriteRow ==
    /\ phase = "merge_write"
    /\ \E row \in unique_rows \ RowSet(merged_out) :
           merged_out' = Append(merged_out, row)
    /\ UNCHANGED <<phase, standards, parseVars, csv_file, serVars, orig_refs, csv_files,
                   file_i, unique_rows, merged_written, mainVars>>

\* line 143: every row of the set is written
MergeFinish ==
    /\ phase = "merge_write"
    /\ unique_rows \ RowSet(merged_out) = {}
    /\ phase' = "merged"
    /\ UNCHANGED <<standards, parseVars, csv_file, serVars, orig_refs, mergeVars, mainVars>>

\* rows of the CSV files of the folder, written under a header
RowTypeAndAll(h) == [i \in 1..Len(h) |-> IF h[i] = TY THEN <<"J">> ELSE <<"x">>]

RowTypeOnly(h) == [i \in 1..Len(h) |-> IF h[i] = TY THEN <<"J">> ELSE <<>>]

RowNoType(h) == [i \in 1..Len(h) |-> IF h[i] = TY THEN <<>> ELSE <<"y">>]

CsvOf(rows) == [is_output |-> FALSE, rows |-> rows]

\* the CSV files a folder may hold
FolderFiles(fields) ==
    { CsvOf(<<fields, RowTypeAndAll(fields), RowTypeOnly(fields)>>),
      CsvOf(<<fields, RowTypeOnly(fields), RowNoType(fields), RowTypeOnly(fields)>>),
      CsvOf(<<Reverse(fields), RowTypeAndAll(Reverse(fields))>>),
      CsvOf(<<Tail(fields), RowTypeAndAll(Tail(fields))>>),
      CsvOf(<<>>),
      CsvOf(<<fields>>),
      [is_output |-> TRUE, rows |-> <<fields, RowNoType(fields)>>] }

MergeInit ==
    /\ phase = "merge_start"
    /\ standards \in LoadedStandards
    /\ csv_files \in SeqsUpTo(FolderFiles(Fields(standards)), MaxSources)
    /\ Cardinality({i \in 1..Len(csv_files) : csv_files[i].is_output}) <= 1
    /\ file_i = 1
    /\ unique_rows = {}
    /\ merged_out = <<>>
    /\ merged_written = FALSE
    /\ IdleParse /\ IdleSer /\ IdleMain
    /\ csv_file = <<>>
    /\ orig_refs = <<>>

MergeNext ==
    \/ MergeNoFiles
    \/ MergeBegin
    \/ MergeSkipOutput
    \/ MergeEmptyFile
    \/ MergeMismatch
    \/ MergeAddRows
    \/ MergeOpenOutput
    \/ MergeWriteRow
    \/ MergeFinish

SpecMerge == MergeInit /\ [][MergeNext]_vars

(***************************************************************************)
(* convert_ris_to_csv's projection, one record per step, and the round     *)
(* trip: records -> CSV file -> convert_csv_to_ris -> parse_ris_file.      *)
(***************************************************************************)
\* line 84: the header row
ProjectHeader ==
    /\ phase = "project_start"
    /\ csv_file' = SubSeq(ProjectFile(standards, references), 1, 1)
    /\ row_i' = 1
    /\ phase' = "project"
    /\ UNCHANGED <<standards, parseVars, field_i, ris_out, ris_written, orig_refs,
                   mergeVars, mainVars>>

\* lines 86-93: the row of the next record
ProjectRecord ==
    /\ phase = "project"
    /\ row_i <= Len(references)
    /\ csv_file' = Append(csv_file, ProjectRow(Fields(standards), references[row_i]))
    /\ row_i' = row_i + 1
    /\ UNCHANGED <<phase, standards, parseVars, field_i, ris_out, ris_written, orig_refs,
                   mergeVars, mainVars>>

\* line 105: the CSV file is complete and is handed to convert_csv_to_ris
ProjectFinish ==
    /\ phase = "project"
    /\ row_i = Len(references) + 1
    /\ row_i' = 1
    /\ phase' = "ser_open"
    /\ UNCHANGED <<standards, parseVars, csv_file, field_i, ris_out, ris_written,
                   orig_refs, mergeVars, mainVars>>

\* the RIS output is read back by parse_ris_file (lines 38-42)
ReadBack ==
    /\ phase = "serialized"
    /\ lines' = ris_out
    /\ pos' = 1
    /\ current_ref' = EmptyRef
    /\ references' = <<>>
    /\ phase' = "parse"
    /\ UNCHANGED <<standards, csv_file, serVars, orig_refs, mergeVars, mainVars>>

ListOf(vals) == [multi |-> TRUE, vals |-> vals]

\* a dict from its set of <<tag, entry>> pairs
DictOf(pairs) ==
    [t \in {p[1] : p \in pairs} |-> (CHOOSE p \in pairs : p[1] = t)[2]]

N1 == <<"N", "1">>

\* records parse_ris_file returns with one TY line: TY, maybe AU, maybe one more tag
RecordsIn ==
    {DictOf({ty} \cup au \cup other) :
        ty \in {<<TY, Scalar(<<"J">>)>>, <<TY, Scalar(<<>>)>>},
        au \in {{}, {<<AU, Scalar(<<"x", ";", "y">>)>>},
                {<<AU, ListOf(<<<<"x">>, <<"y">>>>)>>}},
        other \in {{}, {<<TI, Scalar(<<"x">>)>>}, {<<N1, Scalar(<<"x">>)>>}}}

RoundTripInit ==
    /\ phase = "project_start"
    /\ standards \in LoadedStandards
    /\ orig_refs \in SeqsUpTo(RecordsIn, MaxRecords)
    /\ references = orig_refs
    /\ lines = <<>> /\ pos = 1 /\ current_ref = EmptyRef
    /\ csv_file = <<>>
    /\ IdleSer /\ IdleMerge /\ IdleMain

\* every line convert_csv_to_ris writes for a projected row is blank, an end
\* marker or a stored tag line, so the parser's ignored-line branch has no step
RoundTripNext ==
    \/ ProjectHeader
    \/ ProjectRecord
    \/ ProjectFinish
    \/ SerOpen
    \/ SerSkipRow
    \/ SerTypeLine
    \/ SerSkipField
    \/ SerMultiField
    \/ SerPlainField
    \/ SerEndRow
    \/ SerFinish
    \/ ReadBack
    \/ ParseBlank
    \/ ParseEndMarker
    \/ ParseTagLine
    \/ ParseFinish

SpecRoundTrip == RoundTripInit /\ [][RoundTripNext]_vars

(***************************************************************************)
(* main.  fs.csv is the CSV folder (file name -> rows; the output of the   *)
(* i-th RIS file is named i), fs.merged is merged_output.csv and fs.ris is *)
(* merged_output.ris.  run_log lists the calls main has made.              *)
(***************************************************************************)
\* lines 206-208: no standards file
MainNoStandards ==
    /\ phase = "main_start"
    /\ ~schema_src.exists
    /\ phase' = "main_done"
    /\ UNCHANGED <<standards, parseVars, csv_file, serVars, orig_refs, mergeVars, mainVars>>

\* lines 211-214: no RIS file
MainNoRisFiles ==
    /\ phase = "main_start"
    /\ schema_src.exists
    /\ ris_files = <<>>
    /\ phase' = "main_done"
    /\ UNCHANGED <<standards, parseVars, csv_file, serVars, orig_refs, mergeVars, mainVars>>

\* line 216: the loop is entered
MainEnterLoop ==
    /\ phase = "main_start"
    /\ schema_src.exists
    /\ ris_files # <<>>
    /\ phase' = "main_convert"
    /\ UNCHANGED <<standards, parseVars, csv_file, serVars, orig_refs, mergeVars, mainVars>>

\* lines 216-219: the conversion of the next RIS file
MainConvert ==
    /\ phase = "main_convert"
    /\ ris_i <= Len(ris_files)
    /\ LET r == convert_ris_to_csv(schema_src.rows, ris_files[ris_i])
       IN  /\ run_log' = run_log \o <<"convert_ris_to_csv">>
                         \o (IF r.parsed THEN <<"parse_ris_file">> ELSE <<>>)
           /\ fs' = IF r.wrote
                    THEN [fs EXCEPT !.csv =
                            [n \in DOMAIN fs.csv \cup {ris_i} |->
                                IF n = ris_i THEN r.rows ELSE fs.csv[n]]]
                    ELSE fs
           /\ phase' = IF r.raised THEN "main_crashed" ELSE phase
           /\ ris_i' = IF r.raised THEN ris_i ELSE ris_i + 1
    /\ UNCHANGED <<standards, parseVars, csv_file, serVars, orig_refs, mergeVars,
                   schema_src, ris_files>>

\* the files of the CSV folder, as glob lists them
RECURSIVE FolderList(_)
FolderList(csv) ==
    IF DOMAIN csv = {} THEN <<>>
    ELSE LET n == CHOOSE k \in DOMAIN csv : \A m \in DOMAIN csv : k <= m
         IN  <<[is_output |-> FALSE, rows |-> csv[n]]>>
             \o FolderList([m \in DOMAIN csv \ {n} |-> csv[m]])

\* the orders in which a set of rows can be written
OrdersOf(S) ==
    {s \in [1..Cardinality(S) -> S] : \A i, j \in 1..Cardinality(S) : s[i] = s[j] => i = j}

\* line 222: the merge of the CSV folder
MainMerge ==
    /\ phase = "main_convert"
    /\ ris_i = Len(ris_files) + 1
    /\ LET r == merge_csv_files(schema_src.rows, FolderList(fs.csv))
       IN  /\ run_log' = Append(run_log, "merge_csv_files")
           /\ IF r.written
              THEN \E order \in OrdersOf(r.unique) :
                      fs' = [fs EXCEPT !.merged =
                               [exists |-> TRUE,
                                rows |-> <<Fields(load_ris_standards(schema_src.rows).standards)>>
                                         \o order]]
              ELSE fs' = fs
           /\ phase' = IF r.raised THEN "main_crashed" ELSE "main_serialize"
    /\ UNCHANGED <<standards, parseVars, csv_file, serVars, orig_refs, mergeVars,
                   schema_src, ris_files, ris_i>>

\* lines 225-226: the merged CSV is converted to RIS
MainSerialize ==
    /\ phase = "main_serialize"
    /\ fs.merged.exists
    /\ LET r == convert_csv_to_ris(schema_src.rows, fs.merged.rows)
       IN  /\ run_log' = Append(run_log, "convert_csv_to_ris")
           /\ fs' = IF r.written
                    THEN [fs EXCEPT !.ris = [exists |-> TRUE, lines |-> r.out]]
                    ELSE fs
           /\ phase' = IF r.raised THEN "main_crashed" ELSE "main_done"
    /\ UNCHANGED <<standards, parseVars, csv_file, serVars, orig_refs, mergeVars,
                   schema_src, ris_files, ris_i>>

\* lines 227-228: no merged CSV
MainMergedMissing ==
    /\ phase = "main_serialize"
    /\ ~fs.merged.exists
    /\ phase' = "main_done"
    /\ UNCHANGED <<standards, parseVars, csv_file, serVars, orig_refs, mergeVars, mainVars>>

\* the RIS files of the folder
RisInputs ==
    { [fault |-> "none",
       lines |-> << <<"T", "Y", " ", " ", "-", " ", "J">>,
                    <<"A", "U", " ", " ", "-", " ", "x">>,
                    <<"E", "R", " ", " ", "-", " ">> >>],
      [fault |-> "none", lines |-> << <<"A", "U", " ", " ", "-", " ", "x">> >>],
      [fault |-> "read", lines |-> <<>>],
      [fault |-> "write", lines |-> << <<"T", "Y", " ", " ", "-", " ", "J">> >>] }

\* a CSV file left by an earlier run
StaleCsv == <<<<AU, TY>>, <<<<"x">>, <<"J">>>>>>

\* what the CSV folder holds before the run: nothing, a file under another
\* name, a file without a header row, or an earlier output of the first RIS file
StaleFolders ==
    { EmptyRef, [n \in {0} |-> StaleCsv], [n \in {0} |-> <<>>], [n \in {1} |-> StaleCsv] }

MainInit ==
    /\ phase = "main_start"
    /\ schema_src \in {[exists |-> FALSE, rows |-> <<>>]}
                      \cup {[exists |-> TRUE, rows |-> s] : s \in SchemaSources}
    /\ ris_files \in SeqsUpTo(RisInputs, MaxRisFiles)
    /\ ris_i = 1
    /\ \E folder \in StaleFolders, merged \in BOOLEAN :
          fs = [csv |-> folder,
                merged |-> [exists |-> merged, rows |-> IF merged THEN StaleCsv ELSE <<>>],
                ris |-> [exists |-> FALSE, lines |-> <<>>]]
    /\ run_log = <<>>
    /\ standards = EmptyRef
    /\ IdleParse /\ IdleSer /\ IdleMerge
    /\ csv_file = <<>>
    /\ orig_refs = <<>>

MainNext ==
    \/ MainNoStandards
    \/ MainNoRisFiles
    \/ MainEnterLoop
    \/ MainConvert
    \/ MainMerge
    \/ MainSerialize
    \/ MainMergedMissing

SpecMain == MainInit /\ [][MainNext]_vars

(***************************************************************************)
(* Properties of parse_ris_file.                                           *)
(***************************************************************************)
\* the value of a record entry is non-empty: a non-empty string, or a list
C3_NonEmptyEntry(e) == e.multi \/ e.vals[1] # <<>>

\* C2: every line beginning with ER leaves the in-progress record empty,
\* whether or not the record was appended, so that nothing read before the
\* ER line can reach a record emitted after it.
C2_EndMarkerResets ==
    (phase = "parse" /\ pos > 1 /\ IsEndMarker(lines[pos - 1])) => current_ref = EmptyRef

\* C3: every record of the returned sequence has a TY entry whose value is
\* non-empty.
C3_RecordsHaveType ==
    \A i \in 1..Len(references) :
        TY \in DOMAIN references[i] /\ C3_NonEmptyEntry(references[i][TY])

(***************************************************************************)
(* Properties of convert_csv_to_ris.                                       *)
(***************************************************************************)
RECURSIVE C5_Flatten(_)
C5_Flatten(ss) == IF ss = <<>> THEN <<>> ELSE Head(ss) \o C5_Flatten(Tail(ss))

\* the positions of ";" in a cell, in ascending order, between 0 and Len + 1
C6_Cuts(cell) ==
    LET at == {i \in 1..Len(cell) : cell[i] = ";"}
        n == Cardinality(at)
    IN  [k \in 1..(n + 2) |->
            IF k = 1 THEN 0
            ELSE IF k = n + 2 THEN Len(cell) + 1
            ELSE CHOOSE i \in at : Cardinality({j \in at : j < i}) = k - 2]

\* the text between two consecutive cuts, without the blanks around it
C6_Piece(cell, k) ==
    LET lo == C6_Cuts(cell)[k] + 1
        hi == C6_Cuts(cell)[k + 1] - 1
        ink == {i \in lo..hi : cell[i] # " "}
    IN  IF ink = {} THEN <<>>
        ELSE SubSeq(cell, CHOOSE i \in ink : \A j \in ink : i <= j,
                          CHOOSE i \in ink : \A j \in ink : j <= i)

\* the notes contain the word w, in any mix of upper and lower case
C6_Mentions(notes, w) ==
    \E i \in 1..Len(notes) :
        /\ i + Len(w) - 1 <= Len(notes)
        /\ \A k \in 1..Len(w) : LowerChar(notes[i + k - 1]) = w[k]

C6_MultiValue(tag) ==
    /\ C6_Mentions(standards[tag].notes, <<"e", "a", "c", "h">>)
    /\ C6_Mentions(standards[tag].notes, <<"l", "i", "n", "e">>)

\* the tag lines of a column that is neither TY nor ER, for a non-empty cell
C6_ColumnLines(tag, cell) ==
    IF C6_MultiValue(tag)
    THEN LET n == Len(C6_Cuts(cell)) - 1
             all == [k \in 1..n |-> C6_Piece(cell, k)]
             kept == SelectSeq(all, LAMBDA p : p # <<>>)
         IN  [k \in 1..Len(kept) |-> tag \o <<" ", " ", "-", " ">> \o kept[k]]
    ELSE <<tag \o <<" ", " ", "-", " ">> \o cell>>

\* the block of a row whose TY cell is not empty
C5_Block(row) ==
    LET cell(t) == RowGet(CsvHeader, row, t)
        cols == SelectSeq(Fields(standards),
                          LAMBDA t : t # TY /\ t # ER /\ cell(t) # <<>>)
    IN  << <<"T", "Y", " ", " ", "-", " ">> \o cell(TY) >>
        \o C5_Flatten([k \in 1..Len(cols) |-> C6_ColumnLines(cols[k], cell(cols[k]))])
        \o << <<"E", "R", " ", " ", "-", " ">>, <<>> >>

\* C5: the output is, in row order, one block per row whose TY cell is not
\* empty and nothing for the other rows; a block is the TY line, the lines of
\* the other columns in sorted-tag order without TY, ER and the empty cells,
\* the line "ER  - " and a blank line.
C5_OutputShape ==
    phase = "serialized" =>
        LET kept == SelectSeq(CsvRows, LAMBDA r : RowGet(CsvHeader, r, TY) # <<>>)
        IN  ris_out = C5_Flatten([k \in 1..Len(kept) |-> C5_Block(kept[k])])

\* a row without TY is followed by a row with TY, and the file has a column
\* that is written and an ER column that is not
C5_Witness ==
    /\ phase = "serialized"
    /\ Len(CsvRows) = 2
    /\ RowGet(CsvHeader, CsvRows[1], TY) = <<>>
    /\ RowGet(CsvHeader, CsvRows[2], TY) # <<>>
    /\ RowGet(CsvHeader, CsvRows[2], ER) # <<>>
    /\ RowGet(CsvHeader, CsvRows[2], AU) # <<>>
    /\ Len(ris_out) = 4

\* C6: a tag is multi-value iff its notes contain "each" and "line" in any
\* case; a multi-value column writes one tag line per non-empty trimmed
\* piece of its cell split on ";", in order, and any other column writes one
\* tag line with the whole cell, ";" included.
C6_SplitRule ==
    [][(SerMultiField \/ SerPlainField) =>
        /\ (CurField \in multi_value_fields(standards)) <=> C6_MultiValue(CurField)
        /\ ris_out' = ris_out \o C6_ColumnLines(CurField, CurCell)]_vars

\* a multi-value cell with a blank piece and a piece to trim has been split
\* in two lines
C6_Witness ==
    /\ phase = "ser_field"
    /\ field_i = 2
    /\ Fields(standards)[1] = AU
    /\ RowGet(CsvHeader, CurRow, AU) = <<"x", ";", " ", ";", " ", "y">>
    /\ AU \in multi_value_fields(standards)
    /\ Len(ris_out) >= 3
    /\ ris_out[Len(ris_out)] = <<"A", "U", " ", " ", "-", " ", "y">>
    /\ ris_out[Len(ris_out) - 1] = <<"A", "U", " ", " ", "-", " ", "x">>

\* the header is the sorted tags in some order
C7_IsPermutation(header, fields) ==
    /\ Len(header) = Len(fields)
    /\ \A t \in {header[i] : i \in 1..Len(header)} \cup {fields[i] : i \in 1..Len(fields)} :
           Cardinality({i \in 1..Len(header) : header[i] = t})
               = Cardinality({i \in 1..Len(fields) : fields[i] = t})

\* C7 as stated: an input is accepted only when its header is the sorted
\* tags in that order; any other header is fatal and nothing is written.
C7_OrderedHeaderOnly ==
    (phase # "ser_open" /\ csv_file # <<>> /\ CsvHeader # Fields(standards)) =>
        (phase = "ser_failed" /\ ~ris_written /\ ris_out = <<>>)

\* C7 as amended: an input is accepted exactly when its header is a
\* permutation of the sorted tags; any other header is fatal for the file,
\* output_ris is not opened and nothing is written.
C7_PermutedHeaderOnly ==
    phase # "ser_open" =>
        IF csv_file # <<>> /\ C7_IsPermutation(CsvHeader, Fields(standards))
        THEN phase # "ser_failed" /\ ris_written
        ELSE phase = "ser_failed" /\ ~ris_written /\ ris_out = <<>>

\* a file whose header lacks a column and that has a row with TY was rejected
C7_Witness ==
    /\ phase = "ser_failed"
    /\ csv_file # <<>>
    /\ ~C7_IsPermutation(CsvHeader, Fields(standards))
    /\ \E i \in 1..Len(CsvRows) : RowGet(CsvHeader, CsvRows[i], TY) # <<>>

(***************************************************************************)
(* Properties of merge_csv_files.                                          *)
(***************************************************************************)
C8_Accepted(file) ==
    /\ ~file.is_output
    /\ file.rows # <<>>
    /\ Sorted(Head(file.rows)) = Fields(standards)

\* the folder without its j-th file
C8_Without(files, j) == SubSeq(files, 1, j - 1) \o SubSeq(files, j + 1, Len(files))

C8_Ended == phase \in {"merge_none", "merge_failed", "merged"}

\* C8: when the folder holds an accepted source twice, the merge writes the
\* same set of rows as the merge of the folder with that source once; the
\* merged output never holds two equal rows.
C8_MergeIdempotent ==
    /\ \A i, j \in 1..Len(merged_out) : merged_out[i] = merged_out[j] => i = j
    /\ C8_Ended =>
         \A i, j \in 1..Len(csv_files) :
            (i < j /\ csv_files[i] = csv_files[j] /\ C8_Accepted(csv_files[j])) =>
                LET once == MergeFolder(standards, C8_Without(csv_files, j))
                IN  /\ merged_written = once.written
                    /\ RowSet(merged_out) = once.unique

\* a folder with a file, another file and the first file again was merged, and
\* the duplicate has rows, one of them twice
C8_Witness ==
    /\ phase = "merged"
    /\ Len(csv_files) = 3
    /\ csv_files[1] = csv_files[3]
    /\ csv_files[1] # csv_files[2]
    /\ C8_Accepted(csv_files[3]) /\ C8_Accepted(csv_files[2])
    /\ Len(csv_files[3].rows) = 4
    /\ Len(merged_out) = 3

\* C10: every row of an accepted source is in the merged output with each
\* cell under the tag it had in the source.
C10_ColumnsAligned ==
    phase = "merged" =>
        \A i \in 1..Len(csv_files) :
            C8_Accepted(csv_files[i]) =>
                \A k \in 2..Len(csv_files[i].rows) :
                    \E m \in 1..Len(merged_out) :
                        \A t \in DOMAIN standards :
                            RowGet(Fields(standards), merged_out[m], t)
                                = RowGet(Head(csv_files[i].rows), csv_files[i].rows[k], t)

(***************************************************************************)
(* Properties of the round trip.                                           *)
(***************************************************************************)
\* the number of times v occurs among the values of an entry
C1_Count(e, v) == Cardinality({i \in 1..Len(e.vals) : e.vals[i] = v})

\* two records are equal up to the order of the values of each tag
C1_SameRecord(a, b) ==
    /\ DOMAIN a = DOMAIN b
    /\ \A t \in DOMAIN a :
          \A v \in {a[t].vals[i] : i \in 1..Len(a[t].vals)}
                    \cup {b[t].vals[i] : i \in 1..Len(b[t].vals)} :
              C1_Count(a[t], v) = C1_Count(b[t], v)

\* C1 as stated: for records with one TY line and a TY value, the records
\* read back from the serialized projection of R are the records of R, up to
\* the order of multi-value fields.
C1_RoundTrip ==
    (phase = "parsed" /\ \A i \in 1..Len(orig_refs) : orig_refs[i][TY].vals[1] # <<>>) =>
        /\ Len(references) = Len(orig_refs)
        /\ \A i \in 1..Len(orig_refs) : C1_SameRecord(references[i], orig_refs[i])

C1_HasSemi(v) == \E i \in 1..Len(v) : v[i] = ";"

\* a record the tabular form can hold: a TY value, tags of the schema only,
\* repeated tags only where the schema's notes make the tag multi-value, and
\* no ";" inside a value of a multi-value tag
C1_Representable(ref) ==
    /\ ref[TY].vals[1] # <<>>
    /\ DOMAIN ref \subseteq (DOMAIN standards \ {ER})
    /\ \A t \in DOMAIN ref \ {TY} :
          /\ ref[t].multi => C6_MultiValue(t)
          /\ C6_MultiValue(t) => \A i \in 1..Len(ref[t].vals) : ~C1_HasSemi(ref[t].vals[i])

\* C1 as amended: when every record of R is representable, the records read
\* back are exactly the records of R, values in their original order.
C1_RoundTripRepresentable ==
    (phase = "parsed" /\ \A i \in 1..Len(orig_refs) : C1_Representable(orig_refs[i]))
        => references = orig_refs

\* two representable records made the round trip, one with a repeated
\* multi-value tag and one with a single-valued tag
C1_Witness ==
    /\ phase = "parsed"
    /\ Len(orig_refs) = 2
    /\ \A i \in 1..2 : C1_Representable(orig_refs[i])
    /\ \E i \in 1..2 : AU \in DOMAIN orig_refs[i] /\ orig_refs[i][AU].multi
    /\ \E i \in 1..2 : TI \in DOMAIN orig_refs[i]
    /\ Len(lines) >= 8

(***************************************************************************)
(* Properties of main.                                                     *)
(***************************************************************************)
C4_NoTypeRow == schema_src.exists /\ ~load_ris_standards(schema_src.rows).ok

\* C4: when the standards file has no TY row the failure is fatal to the
\* run: no RIS file is parsed and nothing is attempted after the call in
\* which loading failed.
C4_SchemaErrorHalts ==
    C4_NoTypeRow =>
        /\ \A i \in 1..Len(run_log) : run_log[i] # "parse_ris_file"
        /\ Len(run_log) <= 1

C9_Calls == SelectSeq(run_log, LAMBDA c : c # "parse_ris_file")

C9_Ran ==
    /\ phase = "main_done"
    /\ schema_src.exists
    /\ load_ris_standards(schema_src.rows).ok
    /\ ris_files # <<>>

C9_Conversions == [i \in 1..Len(ris_files) |-> "convert_ris_to_csv"]

\* C9 as stated: whichever conversions fail, every RIS file is converted in
\* turn, then the merge and the serialization run, and no exception leaves
\* main (checked for CSV folders in which every file has a header row).
C9_AllStepsRun ==
    /\ phase # "main_crashed"
    /\ (C9_Ran /\ \A n \in DOMAIN fs.csv : fs.csv[n] # <<>>) =>
         C9_Calls = C9_Conversions \o <<"merge_csv_files", "convert_csv_to_ris">>

\* C9 as amended: whichever conversions fail, every RIS file is converted in
\* turn and parse_ris_file is called for each, then the merge runs, then the
\* serialization runs exactly when merged_output.csv exists, which it does
\* when a conversion succeeded and every file of the CSV folder has a header
\* row; no exception leaves main.
C9_FailuresIsolated ==
    /\ phase # "main_crashed"
    /\ C9_Ran =>
         /\ C9_Calls = C9_Conversions \o <<"merge_csv_files">>
                         \o (IF fs.merged.exists THEN <<"convert_csv_to_ris">> ELSE <<>>)
         /\ Len(run_log) - Len(C9_Calls) = Len(ris_files)
         /\ ( /\ \E i \in 1..Len(ris_files) : ris_files[i].fault = "none"
              /\ \A n \in DOMAIN fs.csv : fs.csv[n] # <<>> )
            => fs.merged.exists

\* the first RIS file could not be read, the second was converted, and the
\* merged table was written and serialized
C9_Witness ==
    /\ phase = "main_done"
    /\ Len(ris_files) = 2
    /\ ris_files[1].fault = "read"
    /\ ris_files[2].fault = "none"
    /\ DOMAIN fs.csv = {2}
    /\ fs.ris.exists
    /\ Len(fs.ris.lines) >= 3

====
